---------------------------- MODULE Spec2Model ----------------------------
(***************************************************************************)
(* A model of autoregression/galgraphs.py: the feature classifier          *)
(* sort_features, the chunked scatter-matrix loop of plot_scatter_matrix,  *)
(* plot_feature_importances, plot_rocs, plot_many_univariates and          *)
(* plot_many_residuals.                                                    *)
(*                                                                         *)
(* The library is synchronous and keeps no state between calls.  The model *)
(* follows one call at a time: a Call_* action binds the arguments, the    *)
(* step actions follow the body of the function, and Return gives control  *)
(* back to the caller, after which the next call may start.  Everything a  *)
(* call draws is recorded in scatter_matrices, bar_charts, figures, grids, *)
(* panels and ax_lines; an exception that leaves the call is recorded in   *)
(* raised.                                                                 *)
(*                                                                         *)
(* Column names are modelled as positive integers, None as 0.  Declared    *)
(* element types are the dtype names numpy prints on a 64-bit Linux or     *)
(* macOS build, where np.dtype('int') is int64 and np.dtype('float') is    *)
(* float64.                                                                *)
(***************************************************************************)
EXTENDS Integers, Sequences, FiniteSets, TLC

(***************************************************************************)
(* Bounds of the model.                                                    *)
(***************************************************************************)
\* Longest schema handed to sort_features directly.
MaxCols == 4
\* Widest dataframe handed to plot_scatter_matrix.
MaxScatterCols == 13
\* Row counts tried: 0..RowSlack and RowSlack either side of the sample cap.
RowSlack == 1
\* Longest list of models handed to plot_rocs.
MaxModels == 3
\* Widest df_X handed to plot_feature_importances.
MaxImportanceCols == 3
\* Feature importances are drawn from 0..MaxScore.
MaxScore == 1

(***************************************************************************)
(* Python values.                                                          *)
(***************************************************************************)
\* Python's None; the default of y_var_name and of pipeline.
None == 0
\* A fitted sklearn Pipeline object (truthy).
Pipeline == 1

\* The exception state of a call: nothing raised.
NoError == [type |-> "none", msg |-> <<>>]

\* raise ValueError(...) / KeyError(...) / AttributeError(...)
Exception(type, msg) == [type |-> type, msg |-> msg]

Min(a, b) == IF a < b THEN a ELSE b

\* range(1, n + 1) as a sequence
Range(n) == [k \in 1..n |-> k]

(***************************************************************************)
(* Dataframes: ordered column names, one declared dtype per column, and a  *)
(* row count (len(df)).                                                    *)
(***************************************************************************)
\* The dtypes a pandas column is given in the model.
Dtypes ==
    {"int64", "float64", "int32", "float32", "object", "bool",
     "datetime64[ns]", "complex128"}

\* np.dtype(name): the dtype object a type name resolves to.
np_dtype(name) ==
    CASE name = "int"   -> "int64"
      [] name = "float" -> "float64"
      [] name = "O"     -> "object"
      [] name = "<U"    -> "<U0"
      [] name = "bool"  -> "bool"

DataFrame(columns, dtypes, nrows) ==
    [columns |-> columns, dtypes |-> dtypes, nrows |-> nrows]

\* The dataframe of a call that has not bound one.
NoFrame == DataFrame(<<>>, <<>>, 0)

\* len(df)
len(frame) == frame.nrows

\* x in list
In(x, list) == \E k \in 1..Len(list) : list[k] = x

\* df.drop(label, axis=1) raises when no label is given or the label is no
\* column of df.
drop_raises(frame, label) == label = None \/ ~In(label, frame.columns)

\* df.drop(label, axis=1): the frame without the column(s) named label.
drop(frame, label) ==
    LET keep == SelectSeq(Range(Len(frame.columns)),
                          LAMBDA k : frame.columns[k] # label)
    IN  DataFrame([k \in 1..Len(keep) |-> frame.columns[keep[k]]],
                  [k \in 1..Len(keep) |-> frame.dtypes[keep[k]]],
                  frame.nrows)

\* df[names] raises KeyError when a requested name is no column of df.
getitem_raises(frame, names) ==
    \E k \in 1..Len(names) : ~In(names[k], frame.columns)

\* The dtype of the (first) column called name.
dtype_of(frame, name) ==
    frame.dtypes[CHOOSE k \in 1..Len(frame.columns) :
                    /\ frame.columns[k] = name
                    /\ \A j \in 1..(k - 1) : frame.columns[j] # name]

\* df[names]: the frame of the named columns, in the order asked for.
getitem(frame, names) ==
    DataFrame(names,
              [k \in 1..Len(names) |-> dtype_of(frame, names[k])],
              frame.nrows)

\* df.sample(n=n) raises ValueError when more rows are asked for than exist.
sample_raises(frame, n) == n > frame.nrows

\* df.sample(n=n): n rows of the frame, all columns.
sample(frame, n) == DataFrame(frame.columns, frame.dtypes, n)

(***************************************************************************)
(* sort_features (lines 24-35).                                            *)
(***************************************************************************)
\* A faulty append that puts the new element first.
append_front(list, x) == <<x>> \o list

\* list.append(x)
append(list, x) == Append(list, x)

\* A faulty test of line 31 that also takes booleans for numbers.
is_continuous_wide(type) ==
    type = np_dtype("int") \/ type = np_dtype("float") \/ type = np_dtype("bool")

\* The test of line 31.
is_continuous(type) == type = np_dtype("int") \/ type = np_dtype("float")

\* The test of line 33.
is_category(type) ==
    type = np_dtype("O") \/ type = np_dtype("<U") \/ type = np_dtype("bool")

\* The loop of lines 30-34 from column k on, with the two lists built so far.
RECURSIVE sort_features_from(_, _, _, _)
sort_features_from(frame, k, continuous, category) ==
    IF k > Len(frame.dtypes)
    THEN <<continuous, category>>
    ELSE LET type    == frame.dtypes[k]
             feature == frame.columns[k]
         IN  sort_features_from(
                 frame, k + 1,
                 IF is_continuous(type) THEN append(continuous, feature)
                                        ELSE continuous,
                 IF is_category(type) THEN append(category, feature)
                                      ELSE category)

\* sort_features(df): (continuous_features, category_features)
sort_features(frame) == sort_features_from(frame, 1, <<>>, <<>>)

(***************************************************************************)
(* plot_scatter_matrix (lines 121-157): the pieces of the chunking loop.   *)
(***************************************************************************)
\* The row cap of lines 137 and 140.
SampleCap == 300
\* The loop runs while more than this many features remain (line 144).
LoopThreshold == 5
\* The width of the slice rendered by an iteration (lines 147 and 149).
ChunkSlice == 6
\* The number of features an iteration removes (line 155).
ChunkStep == 5

\* list[:n]
slice_to(list, n) == SubSeq(list, 1, Min(n, Len(list)))

\* list[n:]
slice_from(list, n) == SubSeq(list, n + 1, Len(list))

\* list.remove(x): the list without the first occurrence of x.
remove(list, x) ==
    LET first == CHOOSE k \in 1..Len(list) :
                    list[k] = x /\ \A j \in 1..(k - 1) : list[j] # x
    IN  SubSeq(list, 1, first - 1) \o SubSeq(list, first + 1, Len(list))

\* A faulty cap that always asks for SampleCap rows.
sample_limit_uncapped(frame) == SampleCap

\* Lines 137-140.
sample_limit_of(frame) ==
    IF len(frame) < SampleCap THEN len(frame) ELSE SampleCap

\* A faulty loop test that also iterates when exactly LoopThreshold remain.
loop_condition_inclusive(features) == LoopThreshold <= Len(features)

\* The loop test of line 144.
loop_condition(features) == LoopThreshold < Len(features)

\* continuous_features[:6], lines 147 and 149.
chunk_head(features) == slice_to(features, ChunkSlice)

\* A faulty step that drops as many features as the slice is wide.
chunk_rest_by_slice(features) == slice_from(features, ChunkSlice)

\* continuous_features[5:], line 155.
chunk_rest(features) == slice_from(features, ChunkStep)

\* The column list of an iteration's chunk, lines 145-149.
loop_chunk_names(y, features) ==
    IF y # None THEN <<y>> \o chunk_head(features) ELSE chunk_head(features)

\* The column list of the last chunk, line 156.
final_chunk_names(y, features) == <<y>> \o features

(***************************************************************************)
(* Models, pipelines and the data they are scored on.                      *)
(***************************************************************************)
ModelClasses ==
    {"RandomForestClassifier", "LogisticRegression", "RidgeCV",
     "GradientBoostingRegressor"}

\* dir(model), as far as the library looks into it.
Attrs(class_name) ==
    CASE class_name = "RandomForestClassifier" ->
             {"predict", "predict_proba", "feature_importances_"}
      [] class_name = "LogisticRegression" ->
             {"predict", "predict_proba", "coef_"}
      [] class_name = "RidgeCV" -> {"predict", "coef_"}
      [] class_name = "GradientBoostingRegressor" ->
             {"predict", "feature_importances_"}

\* A fitted model of a class, with its importances when it has any.
Estimator(class_name, importances) ==
    [class_name |-> class_name, attrs |-> Attrs(class_name),
     feature_importances_ |-> importances]

\* The model of a call that has not bound one.
NoModel == [class_name |-> "", attrs |-> {}, feature_importances_ |-> <<>>]

\* A faulty attribute test that finds every attribute.
hasattr_always(m, name) == TRUE

\* 'name' in dir(model), lines 299 and 599.
hasattr(m, name) == name \in m.attrs

\* The independent variables: column names, and how many times a pipeline
\* has transformed them.
Data(columns, transformed) == [columns |-> columns, transformed |-> transformed]

NoData == Data(<<>>, 0)

\* pipeline.transform(df_X)
transform(X) == [X EXCEPT !.transformed = @ + 1]

(***************************************************************************)
(* The state of a call.                                                    *)
(***************************************************************************)
VARIABLES
    pc,                   \* where control is: "idle", a line label, "returned", "raised"
    fn,                   \* the function being called
    df,                   \* the dataframe argument df
    y_var_name,           \* the argument y_var_name
    continuous_features,  \* the local / returned list continuous_features
    category_features,    \* the local / returned list category_features
    sample_limit,         \* the local sample_limit of plot_scatter_matrix
    scatter_matrices,     \* the frames handed to plot_one_scatter_matrix, in order
    model,                \* the argument model of plot_feature_importances
    models,               \* the argument models of plot_rocs
    df_X,                 \* the argument (and local) df_X
    pipeline,             \* the argument pipeline
    i,                    \* the position of the for loop of plot_rocs in models
    figures,              \* the number of figures created by plt.subplots
    ax_lines,             \* the lines drawn on the ROC axis, in order
    predict_proba_calls,  \* the predict_proba calls made, in order
    bar_charts,           \* the bar charts drawn by plot_feature_importances
    grids,                \* the axes grids created by plt.subplots(rows, cols), in order
    panels,               \* the univariate and residual plots drawn on grid axes, in order
    printed,              \* the lines printed to standard output
    raised                \* the exception that left the call, or NoError

vars ==
    <<pc, fn, df, y_var_name, continuous_features, category_features,
      sample_limit, scatter_matrices, model, models, df_X, pipeline, i,
      figures, ax_lines, predict_proba_calls, bar_charts, grids, panels,
      printed, raised>>

scatter_vars ==
    <<y_var_name, sample_limit, scatter_matrices>>

model_vars ==
    <<model, models, df_X, pipeline, i, figures, ax_lines,
      predict_proba_calls, bar_charts>>

grid_vars ==
    <<grids, panels, printed>>

model_vars_but_i ==
    <<model, models, df_X, pipeline, figures, ax_lines, predict_proba_calls,
      bar_charts>>

\* No call in progress: every argument and local unbound, nothing drawn.
Idle ==
    /\ pc = "idle"
    /\ fn = "none"
    /\ df = NoFrame
    /\ y_var_name = None
    /\ continuous_features = <<>>
    /\ category_features = <<>>
    /\ sample_limit = 0
    /\ scatter_matrices = <<>>
    /\ model = NoModel
    /\ models = <<>>
    /\ df_X = NoData
    /\ pipeline = None
    /\ i = 0
    /\ figures = 0
    /\ ax_lines = <<>>
    /\ predict_proba_calls = <<>>
    /\ bar_charts = <<>>
    /\ grids = <<>>
    /\ panels = <<>>
    /\ printed = <<>>
    /\ raised = NoError

Init == Idle

\* The call ends by raising.
Raise(type, msg) ==
    /\ pc' = "raised"
    /\ raised' = Exception(type, msg)

(***************************************************************************)
(* The inputs tried.                                                       *)
(***************************************************************************)
\* Column names of an n-column frame: in ascending or in descending order.
Namings(n) == {Range(n), [k \in 1..n |-> n + 1 - k]}

\* The frames of n columns handed to sort_features directly: every schema.
SortFrames(n) ==
    {DataFrame(names, dtypes, 1) :
        names \in Namings(n), dtypes \in [1..n -> Dtypes]}

\* Column types of the frames handed to plot_scatter_matrix: all floats, or
\* a repeating mix of numeric, string and 32-bit columns.
Palettes == {<<"float64">>, <<"float64", "int64", "object", "int64", "int32">>}

RowCounts ==
    (0..RowSlack) \cup ((SampleCap - RowSlack)..(SampleCap + RowSlack))

ScatterFrames ==
    {DataFrame(Range(n), [k \in 1..n |-> pal[((k - 1) % Len(pal)) + 1]], r) :
        n \in 0..MaxScatterCols, pal \in Palettes, r \in RowCounts}

\* y_var_name is left out (None) or names a column of df.
YNames(frame) == {None} \cup {frame.columns[k] : k \in 1..Len(frame.columns)}

(***************************************************************************)
(* sort_features called by the user.                                       *)
(***************************************************************************)
Call_sort_features ==
    /\ pc = "idle"
    /\ \E n \in 0..MaxCols : \E frame \in SortFrames(n) : df' = frame
    /\ pc' = "sort_features_28"
    /\ fn' = "sort_features"
    /\ UNCHANGED <<continuous_features, category_features, raised>>
    /\ UNCHANGED scatter_vars
    /\ UNCHANGED model_vars
    /\ UNCHANGED grid_vars

\* Lines 28-35.
sort_features_body ==
    /\ pc = "sort_features_28"
    /\ LET result == sort_features(df)
       IN  /\ continuous_features' = result[1]
           /\ category_features' = result[2]
    /\ pc' = "returned"
    /\ UNCHANGED <<fn, df, raised>>
    /\ UNCHANGED scatter_vars
    /\ UNCHANGED model_vars
    /\ UNCHANGED grid_vars

(***************************************************************************)
(* plot_scatter_matrix.                                                    *)
(***************************************************************************)
Call_plot_scatter_matrix ==
    /\ pc = "idle"
    /\ \E frame \in ScatterFrames : \E y \in YNames(frame) :
           /\ df' = frame
           /\ y_var_name' = y
    /\ pc' = "plot_scatter_matrix_135"
    /\ fn' = "plot_scatter_matrix"
    /\ UNCHANGED <<continuous_features, category_features, sample_limit,
                   scatter_matrices, raised>>
    /\ UNCHANGED model_vars
    /\ UNCHANGED grid_vars

\* Lines 135-143: classify the columns other than y, cap the sample size,
\* take y out of the continuous features.
plot_scatter_matrix_prepare ==
    /\ pc = "plot_scatter_matrix_135"
    /\ IF drop_raises(df, y_var_name)
       THEN /\ Raise(IF y_var_name = None THEN "ValueError" ELSE "KeyError",
                     <<"drop", y_var_name>>)
            /\ UNCHANGED <<continuous_features, category_features,
                           sample_limit>>
       ELSE LET result == sort_features(drop(df, y_var_name))
            IN  /\ continuous_features' =
                       IF y_var_name # None /\ In(y_var_name, result[1])
                       THEN remove(result[1], y_var_name)
                       ELSE result[1]
                /\ category_features' = result[2]
                /\ sample_limit' = sample_limit_of(df)
                /\ pc' = "plot_scatter_matrix_144"
                /\ UNCHANGED raised
    /\ UNCHANGED <<fn, df, y_var_name, scatter_matrices>>
    /\ UNCHANGED model_vars
    /\ UNCHANGED grid_vars

\* df[names].sample(n=sample_limit) handed to plot_one_scatter_matrix, or the
\* exception the selection or the sampling raises.
RenderChunk(names, next_pc, rest) ==
    IF getitem_raises(df, names)
    THEN /\ Raise("KeyError", <<"getitem", names>>)
         /\ UNCHANGED <<scatter_matrices, continuous_features>>
    ELSE IF sample_raises(getitem(df, names), sample_limit)
    THEN /\ Raise("ValueError", <<"sample", sample_limit>>)
         /\ UNCHANGED <<scatter_matrices, continuous_features>>
    ELSE /\ scatter_matrices' =
                Append(scatter_matrices,
                       sample(getitem(df, names), sample_limit))
         /\ continuous_features' = rest
         /\ pc' = next_pc
         /\ UNCHANGED raised

\* Lines 144-155: one iteration of the while loop.
plot_scatter_matrix_iteration ==
    /\ pc = "plot_scatter_matrix_144"
    /\ loop_condition(continuous_features)
    /\ RenderChunk(loop_chunk_names(y_var_name, continuous_features),
                   "plot_scatter_matrix_144",
                   chunk_rest(continuous_features))
    /\ UNCHANGED <<fn, df, y_var_name, category_features, sample_limit>>
    /\ UNCHANGED model_vars
    /\ UNCHANGED grid_vars

\* Lines 156-157: the last chunk, after the loop.
plot_scatter_matrix_final ==
    /\ pc = "plot_scatter_matrix_144"
    /\ ~loop_condition(continuous_features)
    /\ RenderChunk(final_chunk_names(y_var_name, continuous_features),
                   "returned", continuous_features)
    /\ UNCHANGED <<fn, df, y_var_name, category_features, sample_limit>>
    /\ UNCHANGED model_vars
    /\ UNCHANGED grid_vars

(***************************************************************************)
(* plot_feature_importances (lines 285-306).                               *)
(***************************************************************************)
\* model.name raises AttributeError when the model has no such attribute.
getattr_raises(m, name) == name \notin m.attrs

\* repr(model), as interpolated into a message: it names the model's class.
repr(m) == m.class_name

\* A faulty message whose placeholder is never filled in.
missing_importances_message_unformatted(m) ==
    <<"Model: ", "{model}", " doesn't have ", "feature_importances_",
      ", unable to plot">>

\* The message of line 305.
missing_importances_message(m) ==
    <<"Model: ", repr(m), " doesn't have ", "feature_importances_",
      ", unable to plot">>

\* sort_values(by=...): the orders of the rows in which the scores ascend.
\* Rows with equal scores may come out in either order.
sorted_orders(scores) ==
    {order \in Permutations(1..Len(scores)) :
        \A a, b \in 1..Len(scores) :
            a < b => scores[order[a]] <= scores[order[b]]}

\* The models handed to plot_feature_importances for an n-column df_X: of
\* every class, fitted on the same n features (lines 293-295).
FittedModels(n) ==
    UNION {IF "feature_importances_" \in Attrs(c)
           THEN {Estimator(c, scores) : scores \in [1..n -> 0..MaxScore]}
           ELSE {Estimator(c, <<>>)} :
           c \in ModelClasses}

Call_plot_feature_importances ==
    /\ pc = "idle"
    /\ \E n \in 1..MaxImportanceCols : \E m \in FittedModels(n) :
           /\ model' = m
           /\ df_X' = Data(Range(n), 0)
    /\ pc' = "plot_feature_importances_299"
    /\ fn' = "plot_feature_importances"
    /\ UNCHANGED <<df, continuous_features, category_features, raised>>
    /\ UNCHANGED scatter_vars
    /\ UNCHANGED <<models, pipeline, i, figures, ax_lines,
                   predict_proba_calls, bar_charts>>
    /\ UNCHANGED grid_vars

\* Lines 299-306.
plot_feature_importances_body ==
    /\ pc = "plot_feature_importances_299"
    /\ IF hasattr(model, "feature_importances_")
       THEN IF getattr_raises(model, "feature_importances_")
            THEN /\ Raise("AttributeError", <<"feature_importances_">>)
                 /\ UNCHANGED <<figures, bar_charts>>
            ELSE IF Len(model.feature_importances_) # Len(df_X.columns)
            THEN /\ Raise("ValueError", <<"length mismatch">>)
                 /\ UNCHANGED <<figures, bar_charts>>
            ELSE \E order \in sorted_orders(model.feature_importances_) :
                    /\ bar_charts' =
                           Append(bar_charts,
                                  [k \in 1..Len(order) |->
                                      [feature |-> df_X.columns[order[k]],
                                       score |-> model.feature_importances_[order[k]]]])
                    /\ figures' = figures + 1
                    /\ pc' = "returned"
                    /\ UNCHANGED raised
       ELSE /\ Raise("ValueError", missing_importances_message(model))
            /\ UNCHANGED <<figures, bar_charts>>
    /\ UNCHANGED <<fn, df, continuous_features, category_features>>
    /\ UNCHANGED scatter_vars
    /\ UNCHANGED <<model, models, df_X, pipeline, i, ax_lines,
                   predict_proba_calls>>
    /\ UNCHANGED grid_vars

(***************************************************************************)
(* plot_roc (lines 543-576) and plot_rocs (lines 578-604).                 *)
(***************************************************************************)
\* The lists of n models handed to plot_rocs.
ModelLists(n) == [1..n -> {Estimator(c, <<>>) : c \in ModelClasses}]

\* The label of the curve, line 570: it carries the name of the model's class.
roc_label(m) == <<"AUC ", m.class_name>>

\* plot_roc(ax, m, X, y, pipeline=p): the model scores X (transformed first
\* when a pipeline is passed) and the curve and the chance line are drawn.
plot_roc(m, X, p) ==
    IF getattr_raises(m, "predict_proba")
    THEN /\ Raise("AttributeError", <<"predict_proba">>)
         /\ UNCHANGED <<ax_lines, predict_proba_calls>>
    ELSE /\ predict_proba_calls' =
                Append(predict_proba_calls,
                       [class_name |-> m.class_name,
                        data |-> IF p # None THEN transform(X) ELSE X])
         /\ ax_lines' = ax_lines \o
                <<[kind |-> "roc", label |-> roc_label(m)],
                  [kind |-> "chance", label |-> <<>>]>>
         /\ UNCHANGED <<pc, raised>>

\* A faulty call that hands the pipeline on to plot_roc.
roc_pipeline_passed_on(p) == p

\* The pipeline argument of the plot_roc call of line 600: pipeline=None.
roc_pipeline_argument(p) == None

Call_plot_rocs ==
    /\ pc = "idle"
    /\ \E n \in 0..MaxModels : \E ms \in ModelLists(n) :
       \E p \in {None, Pipeline} :
           /\ models' = ms
           /\ pipeline' = p
    /\ df_X' = Data(Range(2), 0)
    /\ pc' = "plot_rocs_593"
    /\ fn' = "plot_rocs"
    /\ UNCHANGED <<df, continuous_features, category_features, raised>>
    /\ UNCHANGED scatter_vars
    /\ UNCHANGED <<model, i, figures, ax_lines, predict_proba_calls,
                   bar_charts>>
    /\ UNCHANGED grid_vars

\* Lines 593-595: transform once, create the figure.
plot_rocs_setup ==
    /\ pc = "plot_rocs_593"
    /\ df_X' = IF pipeline # None THEN transform(df_X) ELSE df_X
    /\ figures' = figures + 1
    /\ i' = 1
    /\ pc' = "plot_rocs_597"
    /\ UNCHANGED <<fn, df, continuous_features, category_features, raised>>
    /\ UNCHANGED scatter_vars
    /\ UNCHANGED <<model, models, pipeline, ax_lines, predict_proba_calls,
                   bar_charts>>
    /\ UNCHANGED grid_vars

\* Lines 597-600: one iteration of the for loop.
plot_rocs_iteration ==
    /\ pc = "plot_rocs_597"
    /\ i <= Len(models)
    /\ IF hasattr(models[i], "predict_proba")
       THEN plot_roc(models[i], df_X, roc_pipeline_argument(pipeline))
       ELSE UNCHANGED <<pc, raised, ax_lines, predict_proba_calls>>
    /\ i' = i + 1
    /\ UNCHANGED <<fn, df, continuous_features, category_features>>
    /\ UNCHANGED scatter_vars
    /\ UNCHANGED <<model, models, df_X, pipeline, figures, bar_charts>>
    /\ UNCHANGED grid_vars

\* Line 604.
plot_rocs_return ==
    /\ pc = "plot_rocs_597"
    /\ i > Len(models)
    /\ pc' = "returned"
    /\ UNCHANGED <<fn, df, continuous_features, category_features, raised>>
    /\ UNCHANGED scatter_vars
    /\ UNCHANGED model_vars
    /\ UNCHANGED grid_vars

(***************************************************************************)
(* plot_one_univariate (lines 159-189) and plot_many_univariates (lines    *)
(* 191-228).                                                               *)
(***************************************************************************)
\* Widest dataframe handed to plot_many_univariates.
MaxUnivariateCols == 4

\* A dataframe whose columns also carry their number of distinct values.
UnivariateFrame(columns, dtypes, nrows, nunique) ==
    [columns |-> columns, dtypes |-> dtypes, nrows |-> nrows,
     nunique |-> nunique]

\* len(df[x].unique())
nunique_of(frame, x) ==
    frame.nunique[CHOOSE k \in 1..Len(frame.columns) :
                     /\ frame.columns[k] = x
                     /\ \A j \in 1..(k - 1) : frame.columns[j] # x]

\* The columns tried: a dtype and a number of distinct values, in frames of
\* three rows.
ColumnKinds ==
    {<<"float64", 3>>, <<"int64", 3>>, <<"float64", 2>>, <<"object", 3>>,
     <<"int32", 3>>}

UnivariateFrames(n) ==
    {UnivariateFrame(Range(n), [k \in 1..n |-> kinds[k][1]], 3,
                     [k \in 1..n |-> kinds[k][2]]) :
        kinds \in [1..n -> ColumnKinds]}

NumericDtypes == {"int64", "int32", "float64", "float32"}

\* y_var_name names a numeric column of df (the docstring's "dataframe of
\* floats or ints"); a frame without one is given any of its columns.
UnivariateYNames(frame) ==
    LET all == {frame.columns[k] : k \in 1..Len(frame.columns)}
        numeric == {c \in all : dtype_of(frame, c) \in NumericDtypes}
    IN  IF numeric # {} THEN numeric ELSE all

\* A faulty filter that also keeps columns of exactly two distinct values.
greater_two_inclusive(count) == count >= 2

\* len(df[x].unique()) > 2, line 207.
greater_two(count) == count > 2

\* The filter of line 207.
continuous_features_greater_two(frame, features) ==
    SelectSeq(features, LAMBDA x : greater_two(nunique_of(frame, x)))

\* A faulty row count that rounds down.
num_plot_rows_floor(k) == k \div 2

\* int(np.ceil(k / 2.0)), line 209.
num_plot_rows(k) == (k + 1) \div 2

\* plt.subplots(rows, cols): the grid created.
Grid(rows, cols) == [nrows |-> rows, ncols |-> cols]

\* The title of lines 216-217 and 223.
univariate_title(x) == <<x, ": Univariate Plot">>

\* plot_one_univariate(ax, df, x, y) followed by ax.set_title: min/max of
\* df[y] and the arithmetic of line 176 need a numeric column y.
plot_one_univariate(axis, frame, x, y) ==
    IF ~In(y, frame.columns)
    THEN /\ Raise("KeyError", <<"getitem", y>>)
         /\ UNCHANGED panels
    ELSE IF dtype_of(frame, y) \notin NumericDtypes
    THEN /\ Raise("TypeError", <<"set_ylim", y>>)
         /\ UNCHANGED panels
    ELSE /\ panels' = Append(panels,
                             [kind |-> "univariate", axis |-> axis, x |-> x,
                              y |-> y, title |-> univariate_title(x)])
         /\ UNCHANGED <<pc, raised>>

Call_plot_many_univariates ==
    /\ pc = "idle"
    /\ \E n \in 1..MaxUnivariateCols : \E frame \in UnivariateFrames(n) :
       \E y \in UnivariateYNames(frame) :
           /\ df' = frame
           /\ y_var_name' = y
    /\ pc' = "plot_many_univariates_206"
    /\ fn' = "plot_many_univariates"
    /\ UNCHANGED <<continuous_features, category_features, sample_limit,
                   scatter_matrices, raised>>
    /\ UNCHANGED model_vars
    /\ UNCHANGED grid_vars

\* Lines 206-211, 218-220 and 227-228: classify, filter, and create the
\* grid of the branch taken, or print that there is nothing to plot.
plot_many_univariates_setup ==
    /\ pc = "plot_many_univariates_206"
    /\ LET result == sort_features(df)
           k == Len(continuous_features_greater_two(df, result[1]))
       IN  /\ continuous_features' = result[1]
           /\ category_features' = result[2]
           /\ IF k > 1
              THEN /\ grids' = Append(grids, Grid(num_plot_rows(k), 2))
                   /\ figures' = figures + 1
                   /\ pc' = "plot_many_univariates_212"
                   /\ UNCHANGED printed
              ELSE IF k = 1
              THEN /\ grids' = Append(grids, Grid(k, 1))
                   /\ figures' = figures + 1
                   /\ pc' = "plot_many_univariates_221"
                   /\ UNCHANGED printed
              ELSE /\ printed' = Append(printed, "No Continous Features to Plot")
                   /\ pc' = "returned"
                   /\ UNCHANGED <<grids, figures>>
    /\ i' = 0
    /\ UNCHANGED <<fn, df, y_var_name, sample_limit, scatter_matrices,
                   panels, raised>>
    /\ UNCHANGED <<model, models, df_X, pipeline, ax_lines,
                   predict_proba_calls, bar_charts>>

\* Lines 212-217: one iteration of the loop over the grid; axs.flatten()[i]
\* raises IndexError past the last axis.
plot_many_univariates_iteration ==
    /\ pc = "plot_many_univariates_212"
    /\ LET features == continuous_features_greater_two(df, continuous_features)
           grid == grids[Len(grids)]
       IN  /\ i < Len(features)
           /\ IF i >= grid.nrows * grid.ncols
              THEN /\ Raise("IndexError", <<"flatten", i>>)
                   /\ UNCHANGED panels
              ELSE plot_one_univariate(i, df, features[i + 1], y_var_name)
    /\ i' = i + 1
    /\ UNCHANGED <<fn, df, y_var_name, continuous_features, category_features,
                   sample_limit, scatter_matrices, grids, printed>>
    /\ UNCHANGED model_vars_but_i

\* Lines 221-226: the loop over the single feature, drawn on the one axis.
plot_many_univariates_single ==
    /\ pc = "plot_many_univariates_221"
    /\ LET features == continuous_features_greater_two(df, continuous_features)
       IN  /\ i < Len(features)
           /\ plot_one_univariate(0, df, features[i + 1], y_var_name)
    /\ i' = i + 1
    /\ UNCHANGED <<fn, df, y_var_name, continuous_features, category_features,
                   sample_limit, scatter_matrices, grids, printed>>
    /\ UNCHANGED model_vars_but_i

\* The end of either loop.
plot_many_univariates_return ==
    /\ pc \in {"plot_many_univariates_212", "plot_many_univariates_221"}
    /\ i >= Len(continuous_features_greater_two(df, continuous_features))
    /\ pc' = "returned"
    /\ UNCHANGED <<fn, df, continuous_features, category_features, raised>>
    /\ UNCHANGED scatter_vars
    /\ UNCHANGED model_vars
    /\ UNCHANGED grid_vars

(***************************************************************************)
(* plot_many_residuals (lines 346-365).                                    *)
(***************************************************************************)
\* Most columns and most rows of the df_X handed to plot_many_residuals.
MaxResidualCols == 4
MaxResidualRows == 4

\* The df_X of r rows and c columns of floats.
ResidualFrame(r, c) == DataFrame(Range(c), [k \in 1..c |-> "float64"], r)

\* The number of axes asked of plt.subplots at line 360: len(df_X), the
\* number of rows of the dataframe.
residual_axes(frame) == len(frame)

\* The number of pairs zip yields from iterables of these lengths.
zip_length(a, b) == Min(a, b)

\* The title of line 364.
residual_title(name) == <<"Model Residuals by ", name>>

Call_plot_many_residuals ==
    /\ pc = "idle"
    /\ \E r \in 1..MaxResidualRows : \E c \in 1..MaxResidualCols :
           df_X' = ResidualFrame(r, c)
    /\ pc' = "plot_many_residuals_360"
    /\ fn' = "plot_many_residuals"
    /\ UNCHANGED <<df, continuous_features, category_features, raised>>
    /\ UNCHANGED scatter_vars
    /\ UNCHANGED <<model, models, pipeline, i, figures, ax_lines,
                   predict_proba_calls, bar_charts>>
    /\ UNCHANGED grid_vars

\* Line 360: one column of residual_axes(df_X) axes.
plot_many_residuals_setup ==
    /\ pc = "plot_many_residuals_360"
    /\ grids' = Append(grids, Grid(residual_axes(df_X), 1))
    /\ figures' = figures + 1
    /\ i' = 0
    /\ pc' = "plot_many_residuals_361"
    /\ UNCHANGED <<fn, df, continuous_features, category_features, raised>>
    /\ UNCHANGED scatter_vars
    /\ UNCHANGED <<model, models, df_X, pipeline, ax_lines,
                   predict_proba_calls, bar_charts>>
    /\ UNCHANGED <<panels, printed>>

\* Lines 361-364: one iteration over zip(axs, df_X), the axes paired with
\* the column names.  plt.subplots(1) gives a single Axes, which zip cannot
\* iterate.
plot_many_residuals_iteration ==
    /\ pc = "plot_many_residuals_361"
    /\ LET grid == grids[Len(grids)]
       IN  IF grid.nrows * grid.ncols = 1
           THEN /\ Raise("TypeError", <<"zip", "Axes">>)
                /\ UNCHANGED <<panels, i>>
           ELSE /\ i < zip_length(grid.nrows * grid.ncols, Len(df_X.columns))
                /\ panels' = Append(panels,
                                    [kind |-> "residual", axis |-> i,
                                     x |-> df_X.columns[i + 1], y |-> None,
                                     title |-> residual_title(df_X.columns[i + 1])])
                /\ i' = i + 1
                /\ UNCHANGED <<pc, raised>>
    /\ UNCHANGED <<fn, df, continuous_features, category_features>>
    /\ UNCHANGED scatter_vars
    /\ UNCHANGED model_vars_but_i
    /\ UNCHANGED <<grids, printed>>

\* Line 365.
plot_many_residuals_return ==
    /\ pc = "plot_many_residuals_361"
    /\ LET grid == grids[Len(grids)]
       IN  /\ grid.nrows * grid.ncols # 1
           /\ i >= zip_length(grid.nrows * grid.ncols, Len(df_X.columns))
    /\ pc' = "returned"
    /\ UNCHANGED <<fn, df, continuous_features, category_features, raised>>
    /\ UNCHANGED scatter_vars
    /\ UNCHANGED model_vars
    /\ UNCHANGED grid_vars

(***************************************************************************)
(* The caller.                                                             *)
(***************************************************************************)
\* The call is over, by a return or by an exception; nothing of it is kept.
Return ==
    /\ pc \in {"returned", "raised"}
    /\ pc' = "idle"
    /\ fn' = "none"
    /\ df' = NoFrame
    /\ y_var_name' = None
    /\ continuous_features' = <<>>
    /\ category_features' = <<>>
    /\ sample_limit' = 0
    /\ scatter_matrices' = <<>>
    /\ model' = NoModel
    /\ models' = <<>>
    /\ df_X' = NoData
    /\ pipeline' = None
    /\ i' = 0
    /\ figures' = 0
    /\ ax_lines' = <<>>
    /\ predict_proba_calls' = <<>>
    /\ bar_charts' = <<>>
    /\ grids' = <<>>
    /\ panels' = <<>>
    /\ printed' = <<>>
    /\ raised' = NoError

Next ==
    \/ Call_sort_features
    \/ sort_features_body
    \/ Call_plot_scatter_matrix
    \/ plot_scatter_matrix_prepare
    \/ plot_scatter_matrix_iteration
    \/ plot_scatter_matrix_final
    \/ Call_plot_feature_importances
    \/ plot_feature_importances_body
    \/ Call_plot_rocs
    \/ plot_rocs_setup
    \/ plot_rocs_iteration
    \/ plot_rocs_return
    \/ Call_plot_many_univariates
    \/ plot_many_univariates_setup
    \/ plot_many_univariates_iteration
    \/ plot_many_univariates_single
    \/ plot_many_univariates_return
    \/ Call_plot_many_residuals
    \/ plot_many_residuals_setup
    \/ plot_many_residuals_iteration
    \/ plot_many_residuals_return
    \/ Return

Spec == Init /\ [][Next]_vars

\* The interpreter runs a call on: a loop whose next statement can execute
\* does execute.
FairSpec ==
    /\ Spec
    /\ WF_vars(plot_scatter_matrix_iteration)
    /\ WF_vars(plot_scatter_matrix_final)

(***************************************************************************)
(* What the properties speak about.                                        *)
(***************************************************************************)
IntegerOrFloatDtypes == {"int64", "int32", "float64", "float32"}

StringOrBoolDtypes == {"object", "bool"}

\* A call of the function is over, by a return or by an exception.
Over(name) == fn = name /\ pc \in {"returned", "raised"}

\* A call of the function has returned.
Returned(name) == fn = name /\ pc = "returned"

\* The columns of df of 64-bit numeric type other than the dependent
\* variable, in column order: the list the chunking loop starts from.
OriginalContinuous ==
    SelectSeq(df.columns,
              LAMBDA c : c # y_var_name
                         /\ dtype_of(df, c) \in {"int64", "float64"})

\* The continuous-feature members of a rendered chunk: its columns without
\* the dependent variable.
Members(chunk) == SelectSeq(chunk.columns, LAMBDA c : c # y_var_name)

RECURSIVE Concat(_)
Concat(lists) ==
    IF lists = <<>> THEN <<>> ELSE Head(lists) \o Concat(Tail(lists))

\* The continuous-feature members of all rendered chunks, in rendering order.
RenderedMembers ==
    Concat([k \in 1..Len(scatter_matrices) |-> Members(scatter_matrices[k])])

\* How often x occurs in list.
Count(x, list) == Cardinality({k \in 1..Len(list) : list[k] = x})

\* ceil(n / 5) when n > 5, and 1 otherwise.
ExpectedChunks(n) == IF n > 5 THEN (n + 4) \div 5 ELSE 1

(***************************************************************************)
(* C1: when the chunking loop of plot_scatter_matrix has run to its end,    *)
(* the continuous-feature members of the rendered chunks, concatenated in  *)
(* rendering order and                                                     *)
(* without the dependent variable, are exactly the original continuous     *)
(* feature list: same order, nothing dropped, nothing in two chunks.       *)
(* The code renders continuous_features[:6] and advances by 5, so with six *)
(* or more features the sixth of every window is rendered twice.           *)
(***************************************************************************)
C1_ChunksPartitionFeatures ==
    Returned("plot_scatter_matrix") => RenderedMembers = OriginalContinuous

(***************************************************************************)
(* C2: every rendered chunk holds at most 5 continuous features, and,      *)
(* when a dependent variable is supplied, the dependent variable exactly   *)
(* once, as its first column.  The chunks of the loop hold 6.              *)
(***************************************************************************)
C2_ChunkAtMostFive ==
    fn = "plot_scatter_matrix" =>
        \A k \in 1..Len(scatter_matrices) :
            LET chunk == scatter_matrices[k]
            IN  /\ Len(Members(chunk)) <= 5
                /\ y_var_name # None =>
                       /\ Head(chunk.columns) = y_var_name
                       /\ Count(y_var_name, chunk.columns) = 1

(***************************************************************************)
(* C3: when a call of plot_scatter_matrix on a dataset with N continuous   *)
(* features other than the dependent variable is over, it has rendered     *)
(* ceil(N/5) chunks when N > 5 and one chunk when N <= 5.  A call without  *)
(* y_var_name raises at line 136 before rendering anything.                *)
(***************************************************************************)
C3_ChunkCount ==
    Over("plot_scatter_matrix") =>
        Len(scatter_matrices) = ExpectedChunks(Len(OriginalContinuous))

\* The count of C3 is the one the loop produces whenever a dependent
\* variable is supplied: such a call never raises and renders
\* ExpectedChunks(N) chunks.
ChunkCountWithDependentVariable ==
    (fn = "plot_scatter_matrix" /\ y_var_name # None) =>
        /\ pc # "raised"
        /\ pc = "returned" =>
               Len(scatter_matrices) = ExpectedChunks(Len(OriginalContinuous))

(***************************************************************************)
(* C4: the two lists sort_features returns share no column name, neither   *)
(* list names a column twice, no integer or float column is in the         *)
(* categorical list and no string or boolean column is in the continuous   *)
(* list.                                                                   *)
(***************************************************************************)
C4_ListsDisjoint ==
    Returned("sort_features") =>
        \A k \in 1..Len(df.columns) :
            LET name == df.columns[k]
                type == df.dtypes[k]
            IN  /\ ~(In(name, continuous_features) /\ In(name, category_features))
                /\ Count(name, continuous_features) <= 1
                /\ Count(name, category_features) <= 1
                /\ type \in IntegerOrFloatDtypes => ~In(name, category_features)
                /\ type \in StringOrBoolDtypes => ~In(name, continuous_features)

\* A schema with numeric, string and boolean columns has been classified
\* into two non-empty lists.
C4_Witness ==
    /\ Returned("sort_features")
    /\ df.dtypes = <<"int32", "bool", "float64", "object">>
    /\ continuous_features # <<>>
    /\ category_features # <<>>

(***************************************************************************)
(* C5: sort_features puts a column in continuous exactly when its declared *)
(* type is integer or floating-point, in categorical exactly when it is    *)
(* string-like or boolean, in neither list otherwise, and raises nothing.  *)
(* The code compares with np.dtype('int') and np.dtype('float') only, so   *)
(* int32 and float32 columns land in neither list.                         *)
(***************************************************************************)
C5_ClassifiedByType ==
    Over("sort_features") =>
        /\ pc = "returned"
        /\ raised = NoError
        /\ \A k \in 1..Len(df.columns) :
               /\ In(df.columns[k], continuous_features)
                      <=> df.dtypes[k] \in IntegerOrFloatDtypes
               /\ In(df.columns[k], category_features)
                      <=> df.dtypes[k] \in StringOrBoolDtypes

(***************************************************************************)
(* C6: each list sort_features returns keeps the column order of the       *)
(* input: the list is the sequence of the columns it holds, in the order   *)
(* they have in df; columns float, object, bool, int give continuous =     *)
(* [first, fourth] and categorical = [second, third].                      *)
(***************************************************************************)
C6_OrderPreserved ==
    Returned("sort_features") =>
        /\ continuous_features =
               SelectSeq(df.columns, LAMBDA c : In(c, continuous_features))
        /\ category_features =
               SelectSeq(df.columns, LAMBDA c : In(c, category_features))
        /\ df.dtypes = <<"float64", "object", "bool", "int64">> =>
               /\ continuous_features = <<df.columns[1], df.columns[4]>>
               /\ category_features = <<df.columns[2], df.columns[3]>>

\* The example schema, with column names that do not ascend.
C6_Witness ==
    /\ Returned("sort_features")
    /\ df.dtypes = <<"float64", "object", "bool", "int64">>
    /\ df.columns = <<4, 3, 2, 1>>
    /\ continuous_features = <<4, 1>>
    /\ category_features = <<3, 2>>

(***************************************************************************)
(* C7: every chunk plot_scatter_matrix renders is a sample of              *)
(* min(300, row_count) rows, never more rows than df has, and no call      *)
(* fails in df.sample.                                                     *)
(***************************************************************************)
C7_SampleWithinRows ==
    fn = "plot_scatter_matrix" =>
        /\ \A k \in 1..Len(scatter_matrices) :
               /\ scatter_matrices[k].nrows = Min(SampleCap, df.nrows)
               /\ scatter_matrices[k].nrows <= df.nrows
        /\ ~(raised.msg # <<>> /\ raised.msg[1] = "sample")

\* A dataset of one row less than the cap, rendered in several chunks, each
\* a sample of all its rows.
C7_Witness ==
    /\ Returned("plot_scatter_matrix")
    /\ df.nrows = SampleCap - 1
    /\ Len(scatter_matrices) >= 2
    /\ \A k \in 1..Len(scatter_matrices) :
           scatter_matrices[k].nrows = SampleCap - 1

(***************************************************************************)
(* C8: called without y_var_name, plot_scatter_matrix raises nothing, and  *)
(* every chunk it renders holds continuous features only.  The code hands  *)
(* None to df.drop at line 136, which raises.                              *)
(***************************************************************************)
C8_OptionalDependentVariable ==
    (fn = "plot_scatter_matrix" /\ y_var_name = None) =>
        /\ raised = NoError
        /\ \A k \in 1..Len(scatter_matrices) :
               \A j \in 1..Len(scatter_matrices[k].columns) :
                   In(scatter_matrices[k].columns[j], OriginalContinuous)

(***************************************************************************)
(* C9: plot_feature_importances on a model without feature_importances_    *)
(* ends with an error whose message names the model and the attribute, and *)
(* creates no figure and draws no chart at any point; on a model with the  *)
(* attribute it raises nothing and draws one chart with one bar for every  *)
(* column of df_X.                                                         *)
(***************************************************************************)
C9_MissingImportancesRaises ==
    fn = "plot_feature_importances" =>
        IF "feature_importances_" \in model.attrs
        THEN /\ pc # "raised"
             /\ raised = NoError
             /\ pc = "returned" =>
                    /\ Len(bar_charts) = 1
                    /\ Len(bar_charts[1]) = Len(df_X.columns)
                    /\ \A k \in 1..Len(df_X.columns) :
                           Cardinality({b \in 1..Len(bar_charts[1]) :
                               bar_charts[1][b].feature = df_X.columns[k]}) = 1
        ELSE /\ pc # "returned"
             /\ figures = 0
             /\ bar_charts = <<>>
             /\ pc = "raised" =>
                    /\ raised.type = "ValueError"
                    /\ In(repr(model), raised.msg)
                    /\ In("feature_importances_", raised.msg)

\* A model without the attribute has been refused.
C9_Witness ==
    /\ fn = "plot_feature_importances"
    /\ pc = "raised"
    /\ model.class_name = "RidgeCV"
    /\ raised.type = "ValueError"
    /\ bar_charts = <<>>

(***************************************************************************)
(* C10: plot_rocs never raises because of a model without predict_proba,   *)
(* and when it returns it has drawn one ROC curve for each model that has  *)
(* predict_proba, in list order, labelled for that model, and none for the *)
(* others.                                                                 *)
(***************************************************************************)
RocLabels ==
    LET curves == SelectSeq(ax_lines, LAMBDA line : line.kind = "roc")
    IN  [k \in 1..Len(curves) |-> curves[k].label]

ExpectedRocLabels ==
    LET able == SelectSeq(models, LAMBDA m : "predict_proba" \in m.attrs)
    IN  [k \in 1..Len(able) |-> <<"AUC ", able[k].class_name>>]

C10_CurvePerCapableModel ==
    fn = "plot_rocs" =>
        /\ raised = NoError
        /\ pc # "raised"
        /\ pc = "returned" => RocLabels = ExpectedRocLabels

\* models = [A with predict_proba, B without]: one curve, labelled for A.
C10_Witness ==
    /\ Returned("plot_rocs")
    /\ Len(models) = 2
    /\ models[1].class_name = "LogisticRegression"
    /\ models[2].class_name = "RidgeCV"
    /\ RocLabels = <<<<"AUC ", "LogisticRegression">>>>

(***************************************************************************)
(* C14: in a call of plot_rocs with a pipeline, the data are transformed   *)
(* exactly once, before the loop, whatever the number of models, and every *)
(* model is scored on data transformed exactly once: never twice, never    *)
(* untransformed.                                                          *)
(***************************************************************************)
C14_TransformedOnce ==
    (fn = "plot_rocs" /\ pipeline # None) =>
        /\ pc # "plot_rocs_593" => df_X.transformed = 1
        /\ \A k \in 1..Len(predict_proba_calls) :
               predict_proba_calls[k].data.transformed = 1

\* A call with a pipeline has scored two models, both on data transformed
\* once.
C14_Witness ==
    /\ Returned("plot_rocs")
    /\ pipeline # None
    /\ Len(predict_proba_calls) >= 2
    /\ \A k \in 1..Len(predict_proba_calls) :
           predict_proba_calls[k].data.transformed = 1

(***************************************************************************)
(* C12: the chunking loop of plot_scatter_matrix terminates.  A step that  *)
(* stays in the loop shortens the remaining list by exactly 5 and is taken *)
(* only while more than 5 features remain; a step taken with 5 or fewer    *)
(* remaining leaves the loop, renders one more chunk, whose continuous     *)
(* features are exactly the remaining ones, and returns; and a call that   *)
(* has reached the loop always returns.                                    *)
(***************************************************************************)
AtLoop == fn = "plot_scatter_matrix" /\ pc = "plot_scatter_matrix_144"

LoopStepShortens ==
    (AtLoop /\ Len(continuous_features) > 5) =>
        /\ pc' = "plot_scatter_matrix_144"
        /\ Len(continuous_features') = Len(continuous_features) - 5
        /\ Len(scatter_matrices') = Len(scatter_matrices) + 1

LoopExitRendersRest ==
    (AtLoop /\ Len(continuous_features) <= 5) =>
        /\ pc' = "returned"
        /\ continuous_features' = continuous_features
        /\ Len(scatter_matrices') = Len(scatter_matrices) + 1
        /\ Members(scatter_matrices'[Len(scatter_matrices')])
               = continuous_features

C12_LoopTerminates ==
    /\ [][LoopStepShortens /\ LoopExitRendersRest]_vars
    /\ AtLoop ~> Returned("plot_scatter_matrix")

\* A call has left the loop after two iterations and rendered the rest.
C12_Witness ==
    /\ Returned("plot_scatter_matrix")
    /\ Len(scatter_matrices) = 3
    /\ Len(continuous_features) \in 1..5
    /\ Members(scatter_matrices[3]) = continuous_features

(***************************************************************************)
(* plot_many_univariates: the columns eligible for a univariate plot are   *)
(* the columns classified continuous (64-bit integer or float) that hold   *)
(* more than two distinct values, in column order.                         *)
(***************************************************************************)
Eligible ==
    SelectSeq(Range(Len(df.columns)),
              LAMBDA k : df.dtypes[k] \in {"int64", "float64"}
                         /\ df.nunique[k] > 2)

EligibleNames == [k \in 1..Len(Eligible) |-> df.columns[Eligible[k]]]

(***************************************************************************)
(* C11: a call of plot_many_univariates on a dataset without an eligible   *)
(* column creates no figure and no grid, draws nothing and raises nothing, *)
(* and when it is over it has returned after printing the message.         *)
(***************************************************************************)
C11_NothingToPlot ==
    (fn = "plot_many_univariates" /\ Eligible = <<>>) =>
        /\ figures = 0
        /\ grids = <<>>
        /\ panels = <<>>
        /\ raised = NoError
        /\ pc # "raised"
        /\ pc = "returned" => printed = <<"No Continous Features to Plot">>
        /\ pc # "returned" => printed = <<>>

\* A dataset of string columns and a two-valued float column has been
\* answered with the message.
C11_Witness ==
    /\ Returned("plot_many_univariates")
    /\ df.dtypes = <<"object", "float64", "object">>
    /\ df.nunique = <<3, 2, 3>>
    /\ printed = <<"No Continous Features to Plot">>
    /\ grids = <<>>

C15_PanelPerColumn ==
    (Returned("plot_many_residuals") /\ df_X.nrows >= 2
        /\ Len(df_X.columns) >= 1) =>
        /\ Len(panels) = Len(df_X.columns)
        /\ \A k \in 1..Len(df_X.columns) :
               Cardinality({a \in 1..Len(panels) :
                               panels[a].x = df_X.columns[k]}) = 1

\* What the code draws instead: a panel for each of the first min(R, C)
\* columns, on R axes.
ResidualPanelsAreMinOfRowsAndColumns ==
    Returned("plot_many_residuals") =>
        /\ grids = <<Grid(df_X.nrows, 1)>>
        /\ Len(panels) = Min(df_X.nrows, Len(df_X.columns))
        /\ \A a \in 1..Len(panels) : panels[a].x = df_X.columns[a]

====
